---- MODULE Spec2Model ----
(***************************************************************************)
(* Model of app.py, a Flask service for phishing-email detection.          *)
(*                                                                         *)
(* Python strings are modelled by TLA+ strings (Len, SubSeq and \o act on  *)
(* them character by character), so substring tests, regular-expression    *)
(* substitutions and f-strings are computed on the characters.             *)
(* Inputs are ASCII strings; the Arabic literals of the source are         *)
(* represented by ASCII constants, one per literal.                        *)
(***************************************************************************)
EXTENDS Integers, Sequences, FiniteSets

VARIABLES
    artifact,     \* the content of email_spam_nb.pkl found at startup
    model,        \* module global `model`
    vectorizer,   \* module global `vectorizer`
    request,      \* the HTTP request being served (NoRequest when none yet)
    response,     \* the response to `request` (NoResponse while it is pending)
    text,         \* normaliser harness: the string preprocess_text is applied to
    passes        \* normaliser harness: how many times it has been applied

vars == <<artifact, model, vectorizer, request, response, text, passes>>

-----------------------------------------------------------------------------
(* Strings *)

\* The i-th character of s, as a one-character string.
Char(s, i) == SubSeq(s, i, i)

\* The set of characters of s.
CharsOf(s) == {Char(s, i) : i \in 1..Len(s)}

\* Python `k in t` for strings: k occurs in t as a contiguous substring.
Contains(t, k) ==
    \E i \in 1..(Len(t) - Len(k) + 1) : SubSeq(t, i, i + Len(k) - 1) = k

\* k occurs in t starting at position i.
StartsAt(t, i, k) ==
    /\ i + Len(k) - 1 <= Len(t)
    /\ SubSeq(t, i, i + Len(k) - 1) = k

UpperCase == "ABCDEFGHIJKLMNOPQRSTUVWXYZ"
LowerCase == "abcdefghijklmnopqrstuvwxyz"

LowerChar(c) ==
    IF \E i \in 1..Len(UpperCase) : Char(UpperCase, i) = c
    THEN Char(LowerCase, CHOOSE i \in 1..Len(UpperCase) : Char(UpperCase, i) = c)
    ELSE c

RECURSIVE LowerFrom(_, _)
LowerFrom(s, i) ==
    IF i > Len(s) THEN "" ELSE LowerChar(Char(s, i)) \o LowerFrom(s, i + 1)

\* str.lower() on ASCII text.
lower(s) == LowerFrom(s, 1)

\* The characters \s matches and str.split() splits on (ASCII).
Whitespace == {" ", "\t", "\n", "\r", "\f"}

\* string.punctuation, less the backquote, which no TLA+ string can hold (no
\* input of the model contains one).
Punctuation == CharsOf("!\"#$%&'()*+,-./:;<=>?@[\\]^_{|}~")

Digits == CharsOf("0123456789")

IsSpace(t, i) == i <= Len(t) /\ Char(t, i) \in Whitespace
NonSpace(t, i) == i <= Len(t) /\ Char(t, i) \notin Whitespace

\* The end of the run of non-whitespace characters that contains position i.
RECURSIVE RunEnd(_, _)
RunEnd(t, i) == IF NonSpace(t, i + 1) THEN RunEnd(t, i + 1) ELSE i

-----------------------------------------------------------------------------
(* preprocess_text *)

\* r'http\S+|www\S+|https\S+' matches at position i.
UrlAt(t, i) ==
    \/ StartsAt(t, i, "http") /\ NonSpace(t, i + 4)
    \/ StartsAt(t, i, "www") /\ NonSpace(t, i + 3)
    \/ StartsAt(t, i, "https") /\ NonSpace(t, i + 5)

\* re.sub(r'http\S+|www\S+|https\S+', '', text): every leftmost match runs
\* (greedy \S+) to the end of its run of non-whitespace characters.
RECURSIVE RemoveUrlsFrom(_, _)
RemoveUrlsFrom(t, i) ==
    IF i > Len(t) THEN ""
    ELSE IF UrlAt(t, i) THEN RemoveUrlsFrom(t, RunEnd(t, i) + 1)
    ELSE Char(t, i) \o RemoveUrlsFrom(t, i + 1)

RemoveUrls(t) == RemoveUrlsFrom(t, 1)

\* r'\S+@\S+' matches at position i: an '@' later in the same run, with at
\* least one character of the run after it.
EmailAt(t, i) ==
    /\ NonSpace(t, i)
    /\ \E p \in (i + 1)..(RunEnd(t, i) - 1) : Char(t, p) = "@"

\* re.sub(r'\S+@\S+', '', text): the greedy trailing \S+ takes the rest of the run.
RECURSIVE RemoveEmailsFrom(_, _)
RemoveEmailsFrom(t, i) ==
    IF i > Len(t) THEN ""
    ELSE IF EmailAt(t, i) THEN RemoveEmailsFrom(t, RunEnd(t, i) + 1)
    ELSE Char(t, i) \o RemoveEmailsFrom(t, i + 1)

RemoveEmails(t) == RemoveEmailsFrom(t, 1)

\* The positions j where r'<.*?>' starting at i can end: a '>' after the '<',
\* with no newline in between ('.' does not match a newline).
TagEnds(t, i) ==
    {j \in (i + 1)..Len(t) :
        /\ Char(t, j) = ">"
        /\ \A m \in (i + 1)..(j - 1) : Char(t, m) # "\n"}

TagAt(t, i) == Char(t, i) = "<" /\ TagEnds(t, i) # {}

\* The lazy .*? stops at the first '>'.
TagEnd(t, i) == CHOOSE j \in TagEnds(t, i) : \A m \in TagEnds(t, i) : j <= m

\* re.sub(r'<.*?>', '', text)
RECURSIVE RemoveTagsFrom(_, _)
RemoveTagsFrom(t, i) ==
    IF i > Len(t) THEN ""
    ELSE IF TagAt(t, i) THEN RemoveTagsFrom(t, TagEnd(t, i) + 1)
    ELSE Char(t, i) \o RemoveTagsFrom(t, i + 1)

RemoveTags(t) == RemoveTagsFrom(t, 1)

\* text.translate(str.maketrans('', '', string.punctuation))
RECURSIVE RemovePunctuationFrom(_, _)
RemovePunctuationFrom(t, i) ==
    IF i > Len(t) THEN ""
    ELSE (IF Char(t, i) \in Punctuation THEN "" ELSE Char(t, i))
            \o RemovePunctuationFrom(t, i + 1)

RemovePunctuation(t) == RemovePunctuationFrom(t, 1)

\* ' '.join(text.split()): the runs of non-whitespace characters, in order,
\* separated by single spaces.
RECURSIVE JoinWordsFrom(_, _, _)
JoinWordsFrom(t, i, first) ==
    IF i > Len(t) THEN ""
    ELSE IF IsSpace(t, i) THEN JoinWordsFrom(t, i + 1, first)
    ELSE (IF first THEN "" ELSE " ")
            \o SubSeq(t, i, RunEnd(t, i))
            \o JoinWordsFrom(t, RunEnd(t, i) + 1, FALSE)

CollapseWhitespace(t) == JoinWordsFrom(t, 1, TRUE)

preprocess_text(s) ==
    CollapseWhitespace(
        RemovePunctuation(
            RemoveTags(
                RemoveEmails(
                    RemoveUrls(
                        lower(s))))))

-----------------------------------------------------------------------------
(* Startup: loading the classifier artifact *)

\* Python's None.
None == "None"

\* What the file email_spam_nb.pkl can hold. kind: "missing" (open() raises),
\* "corrupt" (pickle.load raises), "estimator" (an object with a predict
\* attribute), "mapping" (a dict) or "other" (an object with neither predict
\* nor get). For a mapping, keys is the set of its keys among 'model' and
\* 'vectorizer', and nulls the keys whose value is None.
Artifacts ==
    {[kind |-> k, keys |-> {}, nulls |-> {}] :
        k \in {"missing", "corrupt", "estimator", "other"}}
    \cup {[kind |-> "mapping", keys |-> {"model", "vectorizer"}, nulls |-> {}],
          [kind |-> "mapping", keys |-> {"vectorizer"}, nulls |-> {}],
          [kind |-> "mapping", keys |-> {"model", "vectorizer"}, nulls |-> {"model"}]}

\* model_data.get(key, default) on a mapping artifact; the value stored under
\* a key is named after the key.
ArtifactGet(a, key, default) ==
    IF key \notin a.keys THEN default
    ELSE IF key \in a.nulls THEN None
    ELSE "model_data." \o key

\* The module-level try/except: the values of the globals after startup.
LoadArtifact(a) ==
    IF a.kind \in {"missing", "corrupt"}
    THEN [model |-> None, vectorizer |-> None]
    ELSE IF a.kind = "estimator"
    THEN [model |-> "model_data", vectorizer |-> None]
    ELSE IF a.kind = "mapping"
    THEN [model |-> ArtifactGet(a, "model", "model_data"),
          vectorizer |-> ArtifactGet(a, "vectorizer", None)]
    ELSE [model |-> None, vectorizer |-> None]

-----------------------------------------------------------------------------
(* Requests and responses *)

NoRequest == [route |-> "none"]
NoResponse == [code |-> 0]

\* jsonify(payload), status: a JSON response.
Json(status, payload) == [code |-> status, json |-> payload]

HttpOk == 200
HttpServerError == 500

\* data.get(key, '') on the parsed JSON object
Get(data, key) == IF key \in DOMAIN data THEN data[key] ELSE ""

-----------------------------------------------------------------------------
(* analyze_email *)

\* The list with a looser first phrase.
phishing_keywords_Loose == <<
    "verify your account", "suspended account", "click here immediately",
    "confirm your password", "update payment", "prize", "winner",
    "urgent action required", "verify your identity", "reset password",
    "unusual activity", "limited time", "act now", "free money",
    "nigerian prince", "inheritance", "bank account", "credit card",
    "social security", "tax refund", "claim your", "congratulations you won" >>

phishing_keywords == <<
    "verify account", "suspended account", "click here immediately",
    "confirm your password", "update payment", "prize", "winner",
    "urgent action required", "verify your identity", "reset password",
    "unusual activity", "limited time", "act now", "free money",
    "nigerian prince", "inheritance", "bank account", "credit card",
    "social security", "tax refund", "claim your", "congratulations you won" >>

\* sum(1 for keyword in phishing_keywords if keyword in text_lower)
RECURSIVE ScoreFrom(_, _)
ScoreFrom(text_lower, i) ==
    IF i > Len(phishing_keywords) THEN 0
    ELSE (IF Contains(text_lower, phishing_keywords[i]) THEN 1 ELSE 0)
            + ScoreFrom(text_lower, i + 1)

\* The number of places where k occurs in t.
Occurrences(t, k) == Cardinality({i \in 1..Len(t) : StartsAt(t, i, k)})

\* A score that counts every occurrence of every phrase.
RECURSIVE OccurrencesFrom(_, _)
OccurrencesFrom(text_lower, i) ==
    IF i > Len(phishing_keywords) THEN 0
    ELSE Occurrences(text_lower, phishing_keywords[i])
            + OccurrencesFrom(text_lower, i + 1)

PhishingScore_Occurrences(text_lower) == OccurrencesFrom(text_lower, 1)

\* phishing_score
PhishingScore(text_lower) == ScoreFrom(text_lower, 1)

\* A threshold one too high.
IsPhishing_Strict(phishing_score) == phishing_score > 2

\* is_phishing = phishing_score >= 2
IsPhishing(phishing_score) == phishing_score >= 2

\* The three confidence labels (Arabic for high, medium, low).
ConfidenceHigh == "high"
ConfidenceMedium == "medium"
ConfidenceLow == "low"

\* A medium label that starts at two.
Confidence_MediumFromTwo(phishing_score) ==
    IF phishing_score >= 3 THEN ConfidenceHigh
    ELSE IF phishing_score >= 2 THEN ConfidenceMedium
    ELSE ConfidenceLow

Confidence(phishing_score) ==
    IF phishing_score >= 3 THEN ConfidenceHigh
    ELSE IF phishing_score >= 1 THEN ConfidenceMedium
    ELSE ConfidenceLow

\* The six warning messages and the placeholder.
SignVerification == "request to verify personal data"
SignUrgency == "language of urgency and pressure"
SignLink == "request to click suspicious links"
SignPrize == "promises of unexpected prizes or gains"
SignSensitive == "request for sensitive information"
SignFinancial == "suspicious financial content"
SignNone == "no clear warning signs detected"

\* re.search(r'\$\d+|money|payment|bank', text_lower)
FinancialMatch(text_lower) ==
    \/ \E i \in 1..(Len(text_lower) - 1) :
            Char(text_lower, i) = "$" /\ Char(text_lower, i + 1) \in Digits
    \/ Contains(text_lower, "money")
    \/ Contains(text_lower, "payment")
    \/ Contains(text_lower, "bank")

\* The appends with the sensitive-information test ahead of the prize test.
WarningSigns_Reordered(text_lower) ==
    LET s1 == IF Contains(text_lower, "verify") \/ Contains(text_lower, "confirm")
              THEN <<SignVerification>> ELSE <<>>
        s2 == IF Contains(text_lower, "urgent") \/ Contains(text_lower, "immediately")
              THEN Append(s1, SignUrgency) ELSE s1
        s3 == IF Contains(text_lower, "click here") \/ Contains(text_lower, "click link")
              THEN Append(s2, SignLink) ELSE s2
        s4 == IF Contains(text_lower, "password") \/ Contains(text_lower, "account")
              THEN Append(s3, SignSensitive) ELSE s3
        s5 == IF \/ Contains(text_lower, "prize")
                 \/ Contains(text_lower, "winner")
                 \/ Contains(text_lower, "won")
              THEN Append(s4, SignPrize) ELSE s4
        s6 == IF FinancialMatch(text_lower)
              THEN Append(s5, SignFinancial) ELSE s5
    IN  IF s6 = <<>> THEN <<SignNone>> ELSE s6

\* The six conditional appends, then the placeholder when the list is empty.
WarningSigns(text_lower) ==
    LET s1 == IF Contains(text_lower, "verify") \/ Contains(text_lower, "confirm")
              THEN <<SignVerification>> ELSE <<>>
        s2 == IF Contains(text_lower, "urgent") \/ Contains(text_lower, "immediately")
              THEN Append(s1, SignUrgency) ELSE s1
        s3 == IF Contains(text_lower, "click here") \/ Contains(text_lower, "click link")
              THEN Append(s2, SignLink) ELSE s2
        s4 == IF \/ Contains(text_lower, "prize")
                 \/ Contains(text_lower, "winner")
                 \/ Contains(text_lower, "won")
              THEN Append(s3, SignPrize) ELSE s3
        s5 == IF Contains(text_lower, "password") \/ Contains(text_lower, "account")
              THEN Append(s4, SignSensitive) ELSE s4
        s6 == IF FinancialMatch(text_lower)
              THEN Append(s5, SignFinancial) ELSE s5
    IN  IF s6 = <<>> THEN <<SignNone>> ELSE s6

\* str(n) for a natural number
DigitString == "0123456789"
RECURSIVE Str(_)
Str(n) ==
    IF n < 10 THEN Char(DigitString, n + 1)
    ELSE Str(n \div 10) \o Char(DigitString, (n % 10) + 1)

ReasonSafe == "no clear signs of phishing, but caution is always advised"

\* The two reason templates.
Reason(is_phishing, phishing_score) ==
    IF is_phishing
    THEN "detected " \o Str(phishing_score) \o " known phishing indicators in the email"
    ELSE ReasonSafe

ModelNotLoaded == "Model not loaded. Using fallback detection."
AnalysisErrorPrefix == "analysis error: "

\* The except clause: jsonify({'error': f'...: {str(e)}'}), 500
ErrorResponse(e) ==
    Json(HttpServerError, [error |-> AnalysisErrorPrefix \o e])

\* The test inverted.
ModelAbsent_Inverted == model # None

\* if model is None
ModelAbsent == model = None

\* Scoring on the normaliser's output.
TextLower_Processed(full_email, processed_email) == processed_email

\* text_lower = full_email.lower()
TextLower(full_email, processed_email) == lower(full_email)

\* The body of the try block once `data` is a dict.
Analyze(data) ==
    LET subject == Get(data, "subject")
        body == Get(data, "body")
        full_email == subject \o " " \o body
        processed_email == preprocess_text(full_email)
    IN  IF ModelAbsent
        THEN Json(HttpServerError, [error |-> ModelNotLoaded])
        ELSE LET text_lower == TextLower(full_email, processed_email)
                 phishing_score == PhishingScore(text_lower)
                 is_phishing == IsPhishing(phishing_score)
             IN  Json(HttpOk,
                      [is_phishing |-> is_phishing,
                       confidence |-> Confidence(phishing_score),
                       reason |-> Reason(is_phishing, phishing_score),
                       warning_signs |-> WarningSigns(text_lower),
                       phishing_score |-> phishing_score])

\* str(e) of the exception the first three statements of the try block raise
\* on a request body that is no JSON object. kind "malformed": get_json
\* raises BadRequest. kind "null" or "array": get_json returns None or a
\* list, and data.get raises AttributeError.
ExceptionText(payload) ==
    IF payload.kind = "malformed" THEN "400 Bad Request"
    ELSE IF payload.kind = "null" THEN "'NoneType' object has no attribute 'get'"
    ELSE "'list' object has no attribute 'get'"

\* The model test ahead of the parsing of the body.
AnalyzeResponse_GateFirst(payload) ==
    IF ModelAbsent
    THEN Json(HttpServerError, [error |-> ModelNotLoaded])
    ELSE IF payload.kind # "object"
    THEN ErrorResponse(ExceptionText(payload))
    ELSE Analyze(payload.data)

\* The whole handler: try ... except Exception as e.
AnalyzeResponse(payload) ==
    IF payload.kind # "object"
    THEN ErrorResponse(ExceptionText(payload))
    ELSE Analyze(payload.data)

\* The health report reading the other global.
HealthResponse_Vectorizer ==
    Json(HttpOk, [status |-> "running", model_loaded |-> (vectorizer # None)])

\* jsonify({'status': 'running', 'model_loaded': model is not None})
HealthResponse ==
    Json(HttpOk, [status |-> "running", model_loaded |-> (model # None)])

-----------------------------------------------------------------------------
(* The requests the clients send *)

\* The pieces subjects and bodies are made of.
Parts == <<"verify", "account", "prize", "Prize WINNER", "inheritance",
           "http://", "me@", "<", ">", "$5">>

\* The most pieces one request's subject and body hold together.
MaxParts == 2

\* The concatenation of the pieces ps[from..to].
RECURSIVE Concat(_, _, _)
Concat(ps, from, to) ==
    IF from > to THEN "" ELSE Parts[ps[from]] \o Concat(ps, from + 1, to)

\* Every JSON object with both keys whose subject and body are made of at
\* most MaxParts pieces.
BuiltObjects ==
    UNION {{[subject |-> Concat(ps, 1, cut), body |-> Concat(ps, cut + 1, n)] :
                ps \in [1..n -> 1..Len(Parts)], cut \in 0..n} :
           n \in 0..MaxParts}

\* Requests written out in full: the scenarios of the service's description,
\* indicator phrases inside a URL, an email-like token and an HTML tag, a
\* phrase interrupted by punctuation, and objects lacking a key.
ScenarioObjects ==
    {[subject |-> "Urgent: verify your account",
      body |-> "Click here immediately to confirm your password"],
     [subject |-> "Meeting notes", body |-> "See attached agenda for tomorrow"],
     [subject |-> "You are a WINNER", body |-> "Claim your prize, act now!"],
     [subject |-> "Invoice", body |-> "see http://tax.example/tax refund today"],
     [subject |-> "hello", body |-> "write to inheritance@example.com"],
     [subject |-> "hello", body |-> "<a href=\"free money\">open</a>"],
     [subject |-> "please verify, account", body |-> "thanks"],
     [subject |-> "they won", body |-> "click link to pay $100 by bank payment to your account, urgent"],
     [subject |-> "prize"],
     [body |-> "prize"],
     <<>>}

Payloads ==
    {[kind |-> "object", data |-> d] : d \in BuiltObjects \cup ScenarioObjects}
    \cup {[kind |-> k] : k \in {"malformed", "null", "array"}}

-----------------------------------------------------------------------------
(* The service *)

Init ==
    /\ artifact \in Artifacts
    /\ model = LoadArtifact(artifact).model
    /\ vectorizer = LoadArtifact(artifact).vectorizer
    /\ request = NoRequest
    /\ response = NoResponse
    /\ text = ""
    /\ passes = 0

\* No exchange is in progress.
Idle == request = NoRequest

\* A client sends POST /api/analyze.
PostAnalyze(payload) ==
    /\ Idle
    /\ request' = [route |-> "/api/analyze", payload |-> payload]
    /\ response' = NoResponse
    /\ UNCHANGED <<artifact, model, vectorizer, text, passes>>

\* A client sends GET /api/health.
GetHealth ==
    /\ Idle
    /\ request' = [route |-> "/api/health"]
    /\ response' = NoResponse
    /\ UNCHANGED <<artifact, model, vectorizer, text, passes>>

\* A client sends GET /.
GetIndex ==
    /\ Idle
    /\ request' = [route |-> "/"]
    /\ response' = NoResponse
    /\ UNCHANGED <<artifact, model, vectorizer, text, passes>>

Pending(route) == request.route = route /\ response = NoResponse

analyze_email ==
    /\ Pending("/api/analyze")
    /\ response' = AnalyzeResponse(request.payload)
    /\ UNCHANGED <<artifact, model, vectorizer, request, text, passes>>

health_check ==
    /\ Pending("/api/health")
    /\ response' = HealthResponse
    /\ UNCHANGED <<artifact, model, vectorizer, request, text, passes>>

\* render_template('index.html'): the page, or the framework's 500 when the
\* template (which is no part of app.py) cannot be rendered.
index ==
    /\ Pending("/")
    /\ \E rendered \in BOOLEAN :
          response' = IF rendered
                      THEN [code |-> HttpOk, html |-> "index.html"]
                      ELSE [code |-> HttpServerError, html |-> "Internal Server Error"]
    /\ UNCHANGED <<artifact, model, vectorizer, request, text, passes>>

\* The response reaches the client, which ends the exchange.
Complete ==
    /\ request # NoRequest
    /\ response # NoResponse
    /\ request' = NoRequest
    /\ response' = NoResponse
    /\ UNCHANGED <<artifact, model, vectorizer, text, passes>>

Next ==
    \/ \E payload \in Payloads : PostAnalyze(payload)
    \/ GetHealth
    \/ GetIndex
    \/ analyze_email
    \/ health_check
    \/ index
    \/ Complete

Spec == Init /\ [][Next]_vars

-----------------------------------------------------------------------------
(* The normaliser on its own *)

\* The pieces the normaliser's inputs are made of.
NormParts == <<"h", "ttps", "www", ".", " ", "\n", "a@b", "<", ">", "Hi">>

\* The most pieces one input of the normaliser holds.
MaxNormParts == 3

\* How many times in a row the normaliser is applied.
MaxPasses == 2

RECURSIVE NormConcat(_, _)
NormConcat(ps, from) ==
    IF from > Len(ps) THEN "" ELSE NormParts[ps[from]] \o NormConcat(ps, from + 1)

NormInputs ==
    UNION {{NormConcat(ps, 1) : ps \in [1..n -> 1..Len(NormParts)]} :
           n \in 0..MaxNormParts}

InitNorm ==
    /\ artifact = [kind |-> "missing", keys |-> {}, nulls |-> {}]
    /\ model = LoadArtifact(artifact).model
    /\ vectorizer = LoadArtifact(artifact).vectorizer
    /\ request = NoRequest
    /\ response = NoResponse
    /\ text \in NormInputs
    /\ passes = 0

\* text = preprocess_text(text)
Normalize ==
    /\ passes < MaxPasses
    /\ text' = preprocess_text(text)
    /\ passes' = passes + 1
    /\ UNCHANGED <<artifact, model, vectorizer, request, response>>

NextNorm == Normalize

SpecNorm == InitNorm /\ [][NextNorm]_vars

-----------------------------------------------------------------------------
(* Properties *)

\* POST /api/analyze has been answered.
Analyzed ==
    /\ request.route = "/api/analyze"
    /\ response # NoResponse

\* ... with a success response.
Success == Analyzed /\ response.code = HttpOk

\* ... to a request whose body is a JSON object.
AnalyzedObject == Analyzed /\ request.payload.kind = "object"

\* The subject and the body of the answered request, space-joined.
FullEmail ==
    Get(request.payload.data, "subject") \o " " \o Get(request.payload.data, "body")

\* lowercase(subject + ' ' + body)
RawLower == lower(FullEmail)

ResultFields ==
    {"is_phishing", "confidence", "reason", "warning_signs", "phishing_score"}

\* The distinct indicator phrases that occur in t.
PhrasesIn(t) ==
    {phishing_keywords[i] : i \in {j \in DOMAIN phishing_keywords :
                                        Contains(t, phishing_keywords[j])}}

\* C1: in every success response, is_phishing is true exactly when
\* phishing_score is at least 2.
C1_VerdictRule ==
    Success =>
        /\ response.json.is_phishing \in BOOLEAN
        /\ response.json.is_phishing <=> (response.json.phishing_score >= 2)

\* A success response with score exactly 2 and a positive verdict.
C1_Witness ==
    /\ Success
    /\ response.json.phishing_score = 2
    /\ response.json.is_phishing

\* C2: in every success response the confidence label is fixed by the score
\* (3 or more: high, 1 or 2: medium, 0: low); an input with three or more
\* distinct indicator phrases gets high, and a score of 2 comes with a
\* positive verdict and medium.
C2_ConfidenceRule ==
    Success =>
        LET score == response.json.phishing_score
            label == response.json.confidence
        IN  /\ score >= 3 => label = ConfidenceHigh
            /\ score \in {1, 2} => label = ConfidenceMedium
            /\ score = 0 => label = ConfidenceLow
            /\ score \in Nat
            /\ Cardinality(PhrasesIn(RawLower)) >= 3 => label = ConfidenceHigh
            /\ score = 2 => response.json.is_phishing /\ label = ConfidenceMedium

\* A success response to an input with at least three distinct phrases.
C2_Witness ==
    /\ Success
    /\ Cardinality(PhrasesIn(RawLower)) >= 3
    /\ response.json.confidence = ConfidenceHigh

\* C3: in every success response phishing_score is the number of distinct
\* phrases of the 22-phrase list that occur in the lowercase combined text,
\* a repeated phrase counting once; it lies in 0..22, and when no phrase
\* occurs it is 0 with a negative verdict and the low label.
C3_ScoreCountsDistinctPhrases ==
    /\ Len(phishing_keywords) = 22
    /\ Success =>
        LET score == response.json.phishing_score
        IN  /\ score = Cardinality(PhrasesIn(RawLower))
            /\ score \in 0..22
            /\ PhrasesIn(RawLower) = {} =>
                    /\ score = 0
                    /\ response.json.is_phishing = FALSE
                    /\ response.json.confidence = ConfidenceLow

\* A success response to an input in which one phrase occurs twice and no
\* other phrase occurs.
C3_Witness ==
    /\ Success
    /\ \E k \in PhrasesIn(RawLower) :
            /\ Occurrences(RawLower, k) >= 2
            /\ PhrasesIn(RawLower) = {k}
    /\ response.json.phishing_score = 1

\* The six warning messages in the order of their tests.
SignOrder ==
    <<SignVerification, SignUrgency, SignLink, SignPrize, SignSensitive, SignFinancial>>

\* The i-th trigger condition holds of the text t.
Fires(i, t) ==
    CASE i = 1 -> Contains(t, "verify") \/ Contains(t, "confirm")
      [] i = 2 -> Contains(t, "urgent") \/ Contains(t, "immediately")
      [] i = 3 -> Contains(t, "click here") \/ Contains(t, "click link")
      [] i = 4 -> Contains(t, "prize") \/ Contains(t, "winner") \/ Contains(t, "won")
      [] i = 5 -> Contains(t, "password") \/ Contains(t, "account")
      [] i = 6 -> \/ \E j \in 1..(Len(t) - 1) :
                        Char(t, j) = "$" /\ Char(t, j + 1) \in Digits
                  \/ Contains(t, "money") \/ Contains(t, "payment") \/ Contains(t, "bank")

\* The messages of the conditions i..6 that fire on t, in order.
RECURSIVE FiredFrom(_, _)
FiredFrom(t, i) ==
    IF i > Len(SignOrder) THEN <<>>
    ELSE (IF Fires(i, t) THEN <<SignOrder[i]>> ELSE <<>>) \o FiredFrom(t, i + 1)

\* C4: in every success response warning_signs is non-empty and fixed by the
\* input: one message per condition that fires, each once, in the order of
\* the six conditions; it is the single placeholder exactly when no condition
\* fires, and the placeholder never comes with a real message.
C4_WarningSigns ==
    Success =>
        LET signs == response.json.warning_signs
            fired == FiredFrom(RawLower, 1)
        IN  /\ signs # <<>>
            /\ fired # <<>> => signs = fired
            /\ (signs = <<SignNone>>) <=> (fired = <<>>)
            /\ \A i \in DOMAIN SignOrder :
                    (\E j \in DOMAIN signs : signs[j] = SignOrder[i]) <=> Fires(i, RawLower)
            /\ \A j, k \in DOMAIN signs : j # k => signs[j] # signs[k]
            /\ (\E j \in DOMAIN signs : signs[j] = SignNone) => Len(signs) = 1

\* A success response in which five conditions fire, the prize and the
\* sensitive-information conditions among them.
C4_Witness ==
    /\ Success
    /\ Fires(4, RawLower)
    /\ Fires(5, RawLower)
    /\ Len(response.json.warning_signs) >= 5

C6_ExceptionsBecomeErrors ==
    Analyzed =>
        /\ request.payload.kind # "object" =>
                /\ response.code = HttpServerError
                /\ DOMAIN response.json = {"error"}
                /\ response.json.error = AnalysisErrorPrefix \o ExceptionText(request.payload)
                /\ Contains(response.json.error, ExceptionText(request.payload))
        /\ ~ ("error" \in DOMAIN response.json
                /\ DOMAIN response.json \cap ResultFields # {})
        /\ "error" \in DOMAIN response.json <=> response.code = HttpServerError

\* A malformed body answered with the analysis error while the model is absent.
C6_Witness ==
    /\ Analyzed
    /\ request.payload.kind = "malformed"
    /\ model = None
    /\ response.json.error # ModelNotLoaded
    /\ response.code = HttpServerError

\* Startup obtained a model: the artifact is an estimator, or a mapping whose
\* 'model' entry is not None (the mapping itself when it has no such entry).
StartupLoaded ==
    \/ artifact.kind = "estimator"
    \/ artifact.kind = "mapping" /\ "model" \notin artifact.nulls

C8_NormalizeIdempotent ==
    passes >= 1 => preprocess_text(text) = text

\* The request of the first documented scenario has been answered with success.
Scenario1 ==
    /\ Success
    /\ request.payload.data =
            [subject |-> "Urgent: verify your account",
             body |-> "Click here immediately to confirm your password"]

\* C9 as stated: the scenario scores 4 or more, with a positive verdict and
\* the high label.
C9_ScenarioScoresFour ==
    Scenario1 =>
        /\ response.json.phishing_score >= 4
        /\ response.json.is_phishing
        /\ response.json.confidence = ConfidenceHigh

\* C9 as amended: the scenario scores exactly 2 (it holds 'click here
\* immediately' and 'confirm your password' and no other listed phrase), with
\* a positive verdict and the medium label.
C9_ScenarioScoresTwo ==
    Scenario1 =>
        /\ response.json.phishing_score = 2
        /\ PhrasesIn(RawLower) = {"click here immediately", "confirm your password"}
        /\ response.json.is_phishing
        /\ response.json.confidence = ConfidenceMedium

C9_Witness == Scenario1 /\ model # None

\* The normaliser's output for the answered request.
Normalised == preprocess_text(FullEmail)

\* C10: every field of a success response is computed from
\* lowercase(subject + ' ' + body), never from the normaliser's output: the
\* score counts the phrases of the raw lowercase text (so a phrase the
\* normaliser would strip counts, one joined by the space between subject and
\* body counts, and one interrupted by punctuation does not), and the
\* verdict, label, reason and warning signs follow from that text.
C10_ScoredOnRawLowercase ==
    Success =>
        LET n == Cardinality(PhrasesIn(RawLower))
            json == response.json
        IN  /\ DOMAIN json = ResultFields
            /\ json.phishing_score = n
            /\ json.is_phishing = (n >= 2)
            /\ json.confidence =
                    (IF n >= 3 THEN ConfidenceHigh
                     ELSE IF n >= 1 THEN ConfidenceMedium ELSE ConfidenceLow)
            /\ json.reason = Reason(n >= 2, n)
            /\ json.warning_signs =
                    (IF FiredFrom(RawLower, 1) = <<>> THEN <<SignNone>>
                     ELSE FiredFrom(RawLower, 1))
            /\ \A k \in PhrasesIn(RawLower) \ PhrasesIn(Normalised) :
                    json.phishing_score >= 1
            /\ (PhrasesIn(RawLower) = {} /\ PhrasesIn(Normalised) # {}) =>
                    json.phishing_score = 0

\* A success response whose score differs from the number of phrases in the
\* normaliser's output.
C10_Witness ==
    /\ Success
    /\ response.json.phishing_score = Cardinality(PhrasesIn(RawLower))
    /\ response.json.phishing_score # Cardinality(PhrasesIn(Normalised))

====
